---------------------------- MODULE Spec2Model ----------------------------
(***************************************************************************)
(* Model of the Mercado Circular product API: the Flask variant (app.py)   *)
(* and the standard-library variant with a bearer token (server.py).       *)
(* Texts are sequences of one-character strings, so that escaping,         *)
(* truncation, str.replace and float() parsing are computed, not assumed.  *)
(***************************************************************************)
EXTENDS Integers, Sequences, FiniteSets, TLC

VARIABLES variant, doc, req, resp, before, prev, created, h, saves

vars == <<variant, doc, req, resp, before, prev, created, h, saves>>

(***************************************************************************)
(* Bounds of the model.                                                    *)
(***************************************************************************)
\* products created by POST in one sequential run
MaxCreated == 2
\* products created in a run of SpecText or of SpecServer
MaxCreatedFew == 1

(***************************************************************************)
(* Program constants.                                                      *)
(***************************************************************************)
NAME_MAX == 100
DESCRIPTION_MAX == 500
CATEGORY_MAX == 50
IMAGE_MAX == 200

\* 'Bearer '
BearerPrefix == <<"B", "e", "a", "r", "e", "r", " ">>

\* os.environ.get('API_TOKEN', 'changeme-token'): the default value
API_TOKEN == <<"c", "h", "a", "n", "g", "e", "m", "e", "-", "t", "o", "k", "e", "n">>

(***************************************************************************)
(* Python values that reach the handlers (parsed JSON).  Every value has   *)
(* the same three fields: t the type, s the text of a str, n the number of *)
(* an int (or the element count of a list or dict).                        *)
(***************************************************************************)
JNull == [t |-> "null", s |-> <<>>, n |-> 0]
JStr(s) == [t |-> "str", s |-> s, n |-> 0]
JNum(n) == [t |-> "num", s |-> <<>>, n |-> n]
\* an integer literal beyond the range of a double, such as 10**400
JHuge == [t |-> "huge", s |-> <<>>, n |-> 0]
\* the literals NaN, Infinity and -Infinity, which json.loads accepts
JNaN == [t |-> "nan", s |-> <<>>, n |-> 0]
JInf == [t |-> "inf", s |-> <<>>, n |-> 0]
JNegInf == [t |-> "ninf", s |-> <<>>, n |-> 0]
JBool(b) == [t |-> "bool", s |-> <<>>, n |-> IF b THEN 1 ELSE 0]
JList(n) == [t |-> "list", s |-> <<>>, n |-> n]
JDict(n) == [t |-> "dict", s |-> <<>>, n |-> n]

\* Python truthiness: bool(v)
Truthy(v) ==
    CASE v.t = "null" -> FALSE
      [] v.t = "str" -> Len(v.s) > 0
      [] v.t \in {"num", "bool", "list", "dict"} -> v.n # 0
      [] OTHER -> TRUE

Min(a, b) == IF a < b THEN a ELSE b

Digits == <<"0", "1", "2", "3", "4", "5", "6", "7", "8", "9">>

IsDigit(c) == \E i \in 1..10 : Digits[i] = c

DigitVal(c) == (CHOOSE i \in 1..10 : Digits[i] = c) - 1

RECURSIVE NatToChars(_)
NatToChars(n) ==
    IF n < 10 THEN <<Digits[n + 1]>>
    ELSE NatToChars(n \div 10) \o <<Digits[(n % 10) + 1]>>

Chars(w) ==
    CASE w = "None" -> <<"N", "o", "n", "e">>
      [] w = "True" -> <<"T", "r", "u", "e">>
      [] w = "False" -> <<"F", "a", "l", "s", "e">>
      [] w = "nan" -> <<"n", "a", "n">>
      [] w = "inf" -> <<"i", "n", "f">>
      [] w = "-inf" -> <<"-", "i", "n", "f">>
      [] w = "[]" -> <<"[", "]">>
      [] w = "{}" -> <<"{", "}">>

\* str(v), for the values of the model (an empty list or dict where one occurs)
PyStr(v) ==
    CASE v.t = "str" -> v.s
      [] v.t = "num" -> IF v.n < 0 THEN <<"-">> \o NatToChars(-v.n) ELSE NatToChars(v.n)
      [] v.t = "null" -> Chars("None")
      [] v.t = "bool" -> IF v.n = 1 THEN Chars("True") ELSE Chars("False")
      [] v.t = "nan" -> Chars("nan")
      [] v.t = "inf" -> Chars("inf")
      [] v.t = "ninf" -> Chars("-inf")
      [] v.t = "list" -> Chars("[]")
      [] v.t = "dict" -> Chars("{}")
      [] OTHER -> <<"1", "e", "+", "4", "0", "0">>

\* html.escape's replacement of one character (quote=True)
EscapeChar(c) ==
    CASE c = "&" -> <<"&", "a", "m", "p", ";">>
      [] c = "<" -> <<"&", "l", "t", ";">>
      [] c = ">" -> <<"&", "g", "t", ";">>
      [] c = "\"" -> <<"&", "q", "u", "o", "t", ";">>
      [] c = "'" -> <<"&", "#", "x", "2", "7", ";">>
      [] OTHER -> <<c>>

\* the characters lo..hi of s, each replaced (halving keeps the nesting shallow)
RECURSIVE EscapeRange(_, _, _)
EscapeRange(s, lo, hi) ==
    IF lo > hi THEN <<>>
    ELSE IF lo = hi THEN EscapeChar(s[lo])
    ELSE LET mid == (lo + hi) \div 2
         IN  EscapeRange(s, lo, mid) \o EscapeRange(s, mid + 1, hi)

\* html.escape(s)
Escape(s) == EscapeRange(s, 1, Len(s))

\* s[:limit]
Truncate(s, limit) == SubSeq(s, 1, Min(Len(s), limit))

\* the cut made before the escaping
SanitizeCutFirst(v, limit) == JStr(Escape(Truncate(PyStr(v), limit)))

\* html.escape(str(v))[:limit]
Sanitize(v, limit) == JStr(Truncate(Escape(PyStr(v)), limit))

\* s.startswith(p)
StartsWith(s, p) == Len(s) >= Len(p) /\ SubSeq(s, 1, Len(p)) = p

\* s[k:] for k = len(p)
DropPrefix(s, p) == SubSeq(s, Len(p) + 1, Len(s))

\* s.replace(old, new): every non-overlapping occurrence, leftmost first
RECURSIVE ReplaceFrom(_, _, _, _)
ReplaceFrom(s, i, old, new) ==
    IF i > Len(s) THEN <<>>
    ELSE IF i + Len(old) - 1 <= Len(s) /\ SubSeq(s, i, i + Len(old) - 1) = old
         THEN new \o ReplaceFrom(s, i + Len(old), old, new)
         ELSE <<s[i]>> \o ReplaceFrom(s, i + 1, old, new)

Replace(s, old, new) == ReplaceFrom(s, 1, old, new)

(***************************************************************************)
(* float(v).  A float is [k, n]: k is fin, nan, inf or ninf, and n the     *)
(* value of a finite one.  The result names the exception raised, if any.  *)
(***************************************************************************)
Fin(n) == [k |-> "fin", n |-> n]
NaN == [k |-> "nan", n |-> 0]
PosInf == [k |-> "inf", n |-> 0]
NegInf == [k |-> "ninf", n |-> 0]

FloatOk(f) == [exc |-> "", val |-> f]
FloatRaises(e) == [exc |-> e, val |-> Fin(0)]

RECURSIVE DigitsValue(_, _)
DigitsValue(s, acc) ==
    IF Len(s) = 0 THEN acc ELSE DigitsValue(Tail(s), 10 * acc + DigitVal(Head(s)))

AllDigits(s) == Len(s) > 0 /\ \A i \in 1..Len(s) : IsDigit(s[i])

\* float(str): an optional sign, then nan, inf or decimal digits
ParseFloat(s) ==
    LET neg == Len(s) > 0 /\ Head(s) = "-"
        body == IF neg THEN Tail(s) ELSE s
    IN  CASE body = Chars("nan") -> FloatOk(NaN)
          [] body = Chars("inf") -> FloatOk(IF neg THEN NegInf ELSE PosInf)
          [] AllDigits(body) ->
                FloatOk(Fin(IF neg THEN -DigitsValue(body, 0) ELSE DigitsValue(body, 0)))
          [] OTHER -> FloatRaises("ValueError")

ToFloat(v) ==
    CASE v.t = "num" -> FloatOk(Fin(v.n))
      [] v.t = "bool" -> FloatOk(Fin(v.n))
      [] v.t = "nan" -> FloatOk(NaN)
      [] v.t = "inf" -> FloatOk(PosInf)
      [] v.t = "ninf" -> FloatOk(NegInf)
      [] v.t = "huge" -> FloatRaises("OverflowError")
      [] v.t = "str" -> ParseFloat(v.s)
      [] OTHER -> FloatRaises("TypeError")


(***************************************************************************)
(* Products and the persisted document.                                    *)
(***************************************************************************)
Product(id, name, description, category, price, image) ==
    [id |-> id, name |-> name, description |-> description,
     category |-> category, price |-> price, image |-> image]

NoProduct == Product(0, JNull, JNull, JNull, Fin(0), JNull)

\* The example products written at first run.  Their texts are shortened to
\* the first word (the image URLs to their last parameter); ids and prices
\* are the source's.
Seed1 == Product(1, JStr(<<"C", "h", "a", "q", "u", "e", "t", "a">>),
                 JStr(<<"C", "h", "a", "q", "u", "e", "t", "a">>),
                 JStr(<<"r", "o", "p", "a">>), Fin(45),
                 JStr(<<"&", "q", "=", "6", "0">>))
Seed2 == Product(2, JStr(<<"S", "m", "a", "r", "t", "p", "h", "o", "n", "e">>),
                 JStr(<<"T", "e", "l", "e", "f", "o", "n", "o">>),
                 JStr(<<"e", "l", "e", "c", "t", "r", "o", "n", "i", "c", "a">>), Fin(150),
                 JStr(<<"&", "q", "=", "6", "0">>))
Seed3 == Product(3, JStr(<<"M", "e", "s", "a">>),
                 JStr(<<"M", "e", "s", "a">>),
                 JStr(<<"m", "u", "e", "b", "l", "e", "s">>), Fin(80),
                 JStr(<<"&", "q", "=", "6", "0">>))
Seed4 == Product(4, JStr(<<"Z", "a", "p", "a", "t", "i", "l", "l", "a", "s">>),
                 JStr(<<"M", "o", "d", "e", "l", "o">>),
                 JStr(<<"r", "o", "p", "a">>), Fin(30),
                 JStr(<<"&", "q", "=", "6", "0">>))

\* example_products of app.py and of server.py
SeedProducts(v) ==
    IF v = "app" THEN <<Seed1, Seed2, Seed3, Seed4>> ELSE <<Seed1, Seed2>>

\* The file: absent; empty; text that is not JSON; bytes that are not UTF-8;
\* a JSON object {}; a JSON number; or a JSON array of products.
Doc(kind, items) == [kind |-> kind, items |-> items]
ListDoc(items) == Doc("list", items)

DocKinds == {"absent", "empty", "malformed", "badutf8", "object", "number", "list"}

\* What load_products returns: a list, or whatever else json.load produced;
\* exc names the exception that leaves the function.
Loaded(t, items) == [exc |-> "", t |-> t, items |-> items]
LoadRaises(e) == [exc |-> e, t |-> "list", items |-> <<>>]

load_products(d) ==
    CASE d.kind = "absent" -> Loaded("list", <<>>)
      [] d.kind \in {"empty", "malformed"} -> Loaded("list", <<>>)
      [] d.kind = "badutf8" -> LoadRaises("UnicodeDecodeError")
      [] d.kind = "object" -> Loaded("dict", <<>>)
      [] d.kind = "number" -> Loaded("int", <<>>)
      [] OTHER -> Loaded("list", d.items)

\* save_products: the whole file is rewritten with the list given
save_products(products) == ListDoc(products)

(***************************************************************************)
(* Requests and responses.                                                 *)
(***************************************************************************)
Required == {"name", "description", "category", "price"}

Header(present, text) == [present |-> present, text |-> text]
NoHeader == Header(FALSE, <<>>)

\* A body is bytes that do not decode to JSON, a JSON value that is not an
\* object (val), or an object: the keys it has and their values.
Body(kind, val, keys, name, description, category, price, image) ==
    [kind |-> kind, val |-> val, keys |-> keys, name |-> name,
     description |-> description, category |-> category, price |-> price,
     image |-> image]

Object(keys, name, description, category, price, image) ==
    Body("object", JDict(Cardinality(keys)), keys, name, description, category, price, image)
Scalar(v) == Body("scalar", v, {}, JNull, JNull, JNull, JNull, JNull)
NotJson == Body("notjson", JNull, {}, JNull, JNull, JNull, JNull, JNull)

Request(method, auth, body) == [method |-> method, auth |-> auth, body |-> body]
NoRequest == Request("none", NoHeader, NotJson)

Response(kind, status, text, product, val) ==
    [kind |-> kind, status |-> status, text |-> text, product |-> product, val |-> val]

NoResponse == Response("none", 0, "", NoProduct, Loaded("list", <<>>))
\* {'error': text} with an HTTP status
Error(status, text) == Response("error", status, text, NoProduct, Loaded("list", <<>>))
\* {'message': 'Producto agregado', 'product': product}, 201
Created(product) == Response("created", 201, "Producto agregado", product, Loaded("list", <<>>))
\* the JSON of what load_products returned, 200
Listing(val) == Response("list", 200, "", NoProduct, val)
\* an exception leaves the handler: no response is written by it
Raised(exc) == Response("raised", 0, exc, NoProduct, Loaded("list", <<>>))
\* the framework's own answer to a body it cannot parse (an HTML page)
FrameworkError(status) == Response("framework", status, "", NoProduct, Loaded("list", <<>>))


(***************************************************************************)
(* POST /api/products up to the point where the file is written.  The      *)
(* outcome is either a response (nothing is saved) or the list loaded and  *)
(* the product to append to it.                                            *)
(***************************************************************************)
Answer(r) == [resp |-> r, products |-> <<>>, product |-> NoProduct]
Proceed(products, product) == [resp |-> NoResponse, products |-> products, product |-> product]

\* token = auth.replace('Bearer ', '') if auth.startswith('Bearer ') else None
BearerToken(auth) ==
    LET text == IF auth.present THEN auth.text ELSE <<>>
    IN  IF StartsWith(text, BearerPrefix)
        THEN [none |-> FALSE, text |-> Replace(text, BearerPrefix, <<>>)]
        ELSE [none |-> TRUE, text |-> <<>>]

\* not (token != API_TOKEN)
Authorized(auth) ==
    \E token \in {BearerToken(auth)} : ~token.none /\ token.text = API_TOKEN

\* a required set that forgets the name
HasRequiredNoName(keys) == {"description", "category", "price"} \subseteq keys

\* required.issubset(data.keys())
HasRequired(keys) == Required \subseteq keys

\* ids counted from zero
NewIdFromZero(products) == Len(products)

\* id = len(products) + 1
NewId(products) == Len(products) + 1

\* a handler that expects only a ValueError
AppCaughtValueOnly == {"ValueError"}

\* the exceptions of float() that add_product catches
AppCaught == {"ValueError", "TypeError"}

\* data.get('image', '')
ImageOrEmpty(b) == IF "image" \in b.keys THEN b.image ELSE JStr(<<>>)

\* if not data.get('image'): data['image'] = ''
ImageOrDefault(b) ==
    IF "image" \in b.keys /\ Truthy(b.image) THEN b.image ELSE JStr(<<>>)

\* server.py, _handle_post_product, lines 134-183
ServerPrepare(r, d) ==
    LET b == r.body
        f == ToFloat(b.price)
        l == load_products(d)
    IN  IF ~Authorized(r.auth) THEN Answer(Error(401, "Unauthorized"))
        ELSE IF b.kind = "notjson" THEN Answer(Error(400, "Invalid JSON"))
        ELSE IF b.kind = "scalar" THEN Answer(Raised("AttributeError"))
        ELSE IF ~HasRequired(b.keys) THEN Answer(Error(400, "Missing required fields"))
        ELSE IF f.exc # "" THEN Answer(Error(400, "Invalid price"))
        ELSE IF l.exc # "" THEN Answer(Raised(l.exc))
        ELSE IF l.t = "int" THEN Answer(Raised("TypeError"))
        ELSE IF l.t = "dict" THEN Answer(Raised("AttributeError"))
        ELSE Proceed(l.items,
                     Product(NewId(l.items),
                             Sanitize(b.name, NAME_MAX),
                             Sanitize(b.description, DESCRIPTION_MAX),
                             Sanitize(b.category, CATEGORY_MAX),
                             f.val,
                             Sanitize(ImageOrEmpty(b), IMAGE_MAX)))

\* data = request.get_json() or {}
AppData(b) ==
    IF b.kind = "scalar" /\ ~Truthy(b.val)
    THEN Object({}, JNull, JNull, JNull, JNull, JNull)
    ELSE b

\* app.py, add_product, lines 71-87
AppPrepare(r, d) ==
    LET data == AppData(r.body)
        f == ToFloat(data.price)
        l == load_products(d)
    IN  IF r.body.kind = "notjson" THEN Answer(FrameworkError(400))
        ELSE IF data.kind = "scalar" THEN Answer(Raised("AttributeError"))
        ELSE IF ~HasRequired(data.keys) THEN Answer(Error(400, "Missing required fields"))
        ELSE IF l.exc # "" THEN Answer(Raised(l.exc))
        ELSE IF l.t = "int" THEN Answer(Raised("TypeError"))
        ELSE IF f.exc \in AppCaught THEN Answer(Error(400, "Invalid price format"))
        ELSE IF f.exc # "" THEN Answer(Raised(f.exc))
        ELSE IF l.t = "dict" THEN Answer(Raised("AttributeError"))
        ELSE Proceed(l.items,
                     Product(NewId(l.items), data.name, data.description,
                             data.category, f.val, ImageOrDefault(data)))

Prepare(v, r, d) == IF v = "app" THEN AppPrepare(r, d) ELSE ServerPrepare(r, d)

\* the new product put first
StoreInFront(products, product) == save_products(<<product>> \o products)

\* products.append(product); save_products(products)
Store(products, product) == save_products(Append(products, product))

(***************************************************************************)
(* The requests of the model.                                              *)
(***************************************************************************)
ValidAuth == Header(TRUE, BearerPrefix \o API_TOKEN)

Headers ==
    { NoHeader,
      Header(TRUE, <<>>),
      Header(TRUE, API_TOKEN),
      ValidAuth,
      Header(TRUE, BearerPrefix \o <<"x">>),
      Header(TRUE, BearerPrefix \o API_TOKEN \o <<"x">>),
      Header(TRUE, <<"b">> \o Tail(BearerPrefix) \o API_TOKEN),
      Header(TRUE, BearerPrefix \o BearerPrefix \o API_TOKEN),
      Header(TRUE, BearerPrefix \o API_TOKEN \o BearerPrefix) }

Txt(c) == JStr(<<c>>)

BaseObject == Object(Required, Txt("a"), Txt("d"), Txt("c"), JNum(1), JNull)

WithKeys(keys) == Object(keys, Txt("a"), Txt("d"), Txt("c"), JNum(1), JNull)
WithPrice(p) == Object(Required, Txt("a"), Txt("d"), Txt("c"), p, JNull)
WithName(n) == Object(Required, n, Txt("d"), Txt("c"), JNum(1), JNull)
WithDescription(t) == Object(Required, Txt("a"), t, Txt("c"), JNum(1), JNull)
WithCategory(t) == Object(Required, Txt("a"), Txt("d"), t, JNum(1), JNull)
WithImage(i) == Object(Required \cup {"image"}, Txt("a"), Txt("d"), Txt("c"), JNum(1), i)

Prices ==
    { JNum(1), JNum(-1), JBool(TRUE), JHuge, JNaN, JInf, JNull, JList(0), JDict(0),
      JStr(<<>>), JStr(<<"a", "b", "c">>), JStr(<<"1">>), JStr(<<"-", "1">>),
      JStr(Chars("nan")), JStr(Chars("inf")) }

Scalars == { JNull, JList(0), JList(1), JStr(<<"s">>), JNum(5), JNum(0) }

MissingKeys ==
    { Required \ {k} : k \in Required } \cup { {}, {"name"}, {"price", "image"} }

Bodies ==
    {NotJson} \cup { Scalar(v) : v \in Scalars }
        \cup { WithKeys(ks) : ks \in MissingKeys }
        \cup { WithPrice(p) : p \in Prices }
        \cup { WithName(JStr(<<"<", "b", ">">>)) }

\* every body with the valid header, some without a header
Requests ==
    { Request("POST", ValidAuth, b) : b \in Bodies }
        \cup { Request("POST", NoHeader, b) :
                 b \in {BaseObject, WithKeys({"name"}), WithPrice(JNull)} }

\* every header with three of the bodies, and the bodies that are no object
ServerRequests ==
    { Request("POST", a, b) : a \in Headers, b \in {BaseObject, NotJson, WithKeys({"name"})} }
        \cup { Request("POST", ValidAuth, Scalar(v)) : v \in Scalars }

Pad(n) == [i \in 1..n |-> "a"]

\* a text whose escaped form is cut inside the entity of its '<'
LongText(limit) == JStr(Pad(limit - 2) \o <<"<", ">">>)

\* a text whose escaped form has exactly the length of the limit
FitText(limit) == JStr(Pad(limit - 4) \o <<">">>)

TextBodies ==
    { BaseObject, WithKeys({"name"}) }
        \cup { WithName(n) : n \in { JStr(<<"<", "b", ">">>), JStr(<<"\"", "'", "&">>),
                                     JNum(7), LongText(NAME_MAX) } }
        \cup { WithDescription(t) : t \in { LongText(DESCRIPTION_MAX), FitText(DESCRIPTION_MAX) } }
        \cup { WithCategory(t) : t \in { JStr(<<"<">>), LongText(CATEGORY_MAX) } }
        \cup { WithImage(i) : i \in { JNull, JStr(<<>>), JStr(<<"x", "'">>),
                                      LongText(IMAGE_MAX) } }

TextRequests == { Request("POST", ValidAuth, b) : b \in TextBodies }

\* the requests two concurrent handlers draw from
ConcRequests ==
    { Request("POST", ValidAuth, b) :
        b \in { BaseObject, WithPrice(JNum(0)), WithName(JStr(<<"<", "b", ">">>)),
                WithKeys({"name"}), WithPrice(JNull) } }
        \cup { Request("POST", NoHeader, BaseObject) }

(***************************************************************************)
(* State.                                                                  *)
(*   variant  which program runs: "app" or "server"                        *)
(*   doc      the products file                                            *)
(*   req, resp, before   the last request handled, its response, and the   *)
(*            file as it was when the request arrived                      *)
(*   prev     at a GET: the exchange that preceded it                      *)
(*   created  the number of products created so far                        *)
(*   h, saves the handlers of two requests in flight, and the order in     *)
(*            which they wrote the file                                    *)
(***************************************************************************)
Handlers == {1, 2}

Exchange(r, a, b) == [req |-> r, resp |-> a, before |-> b]
NoExchange == Exchange(NoRequest, NoResponse, Doc("absent", <<>>))

Idle == [pc |-> "idle", req |-> NoRequest, products |-> <<>>, product |-> NoProduct,
         resp |-> NoResponse, seen |-> 0, n |-> 0]

\* the file before the first request: not there, empty, or the seed data
CleanDocs(v) == { Doc("absent", <<>>), Doc("empty", <<>>), ListDoc(SeedProducts(v)) }

\* the file in any condition
AnyDocs(v) == CleanDocs(v) \cup { Doc(k, <<>>) : k \in DocKinds }

InitWith(docs) ==
    /\ variant \in {"app", "server"}
    /\ doc \in docs[variant]
    /\ req = NoRequest
    /\ resp = NoResponse
    /\ before = doc
    /\ prev = NoExchange
    /\ created = 0
    /\ h = [i \in Handlers |-> Idle]
    /\ saves = <<>>

Init == InitWith([v \in {"app", "server"} |-> CleanDocs(v)])

InitAnyDoc == InitWith([v \in {"app", "server"} |-> AnyDocs(v)])

InitServer == Init /\ variant = "server"

\* GET /api/products: get_products, _handle_get_products
Get ==
    LET l == load_products(doc)
    IN  /\ req' = Request("GET", NoHeader, NotJson)
        /\ resp' = IF l.exc # "" THEN Raised(l.exc) ELSE Listing(l)
        /\ before' = doc
        /\ prev' = Exchange(req, resp, before)
        /\ UNCHANGED <<variant, doc, created, h, saves>>

\* POST /api/products with a request of R, handled from start to end
PostFrom(R, max) ==
    \E r \in R :
        \E o \in {Prepare(variant, r, doc)} :
        \E creates \in {o.resp.kind = "none"} :
            /\ creates => created < max
            /\ req' = r
            /\ before' = doc
            /\ prev' = NoExchange
            /\ doc' = IF creates THEN Store(o.products, o.product) ELSE doc
            /\ resp' = IF creates THEN Created(o.product) ELSE o.resp
            /\ created' = IF creates THEN created + 1 ELSE created
            /\ UNCHANGED <<variant, h, saves>>

Post == PostFrom(Requests, MaxCreated)

PostText == PostFrom(TextRequests, MaxCreatedFew)

PostServer == PostFrom(ServerRequests, MaxCreatedFew)

\* a handler runs up to and including load_products
Begin(i) ==
    /\ h[i].pc = "idle"
    /\ \E r \in ConcRequests :
        \E o \in {Prepare(variant, r, doc)} :
            h' = [h EXCEPT ![i] =
                    IF o.resp.kind = "none"
                    THEN [pc |-> "loaded", req |-> r, products |-> o.products,
                          product |-> o.product, resp |-> NoResponse,
                          seen |-> Len(saves), n |-> Len(o.products)]
                    ELSE [pc |-> "done", req |-> r, products |-> <<>>,
                          product |-> NoProduct, resp |-> o.resp,
                          seen |-> Len(saves), n |-> 0]]
    /\ UNCHANGED <<variant, doc, req, resp, before, prev, created, saves>>

\* a handler that reads the file again just before it writes
SaveAfterReload(i) ==
    /\ h[i].pc = "loaded"
    /\ \E p \in {[h[i].product EXCEPT !.id = Len(load_products(doc).items) + 1]} :
        /\ doc' = save_products(Append(load_products(doc).items, p))
        /\ h' = [h EXCEPT ![i].pc = "done", ![i].resp = Created(p)]
    /\ saves' = Append(saves, i)
    /\ UNCHANGED <<variant, req, resp, before, prev, created>>

\* the handler appends to the list it loaded, writes the file and answers 201
Save(i) ==
    /\ h[i].pc = "loaded"
    /\ doc' = Store(h[i].products, h[i].product)
    /\ h' = [h EXCEPT ![i].pc = "done", ![i].resp = Created(h[i].product)]
    /\ saves' = Append(saves, i)
    /\ UNCHANGED <<variant, req, resp, before, prev, created>>

Next == Get \/ Post

NextText == Get \/ PostText

NextServer == Get \/ PostServer

NextConc == \E i \in Handlers : Begin(i) \/ Save(i)

\* requests one at a time, from a clean file
Spec == Init /\ [][Next]_vars

\* requests one at a time, from a file in any condition
SpecAnyDoc == InitAnyDoc /\ [][Next]_vars

\* server.py with the texts that exercise escaping and truncation
SpecText == InitServer /\ [][NextText]_vars

\* server.py with every Authorization header of the model
SpecServer == InitServer /\ [][NextServer]_vars

\* two POST requests in flight at once
SpecConc == Init /\ [][NextConc]_vars


(***************************************************************************)
(* Vocabulary of the properties.                                           *)
(***************************************************************************)
IsPost(r) == r.method = "POST"
IsGet(r) == r.method = "GET"

\* the products a file holds
Held(d) == load_products(d).items

\* the header is exactly 'Bearer ' followed by the configured token
PresentsToken(r) == r.auth.present /\ r.auth.text = BearerPrefix \o API_TOKEN

\* authorized where the variant requires it
AuthorizedIfRequired(v, r) == v = "server" => PresentsToken(r)

HasAllRequired(r) == r.body.kind = "object" /\ Required \subseteq r.body.keys

\* the JSON numbers, the literals NaN and Infinity included
NumericTypes == {"num", "huge", "nan", "inf", "ninf"}

\* the JSON numbers within the range of a double
ConvertibleTypes == {"num", "nan", "inf", "ninf"}

\* null, a list, an object, or a string that spells no number
NonNumericPrice(p) ==
    \/ p.t \in {"null", "list", "dict"}
    \/ /\ p.t = "str"
       /\ \A i \in 1..Len(p.s) : ~IsDigit(p.s[i])
       /\ p.s \notin {Chars("nan"), Chars("inf")}

\* the exchange x created a product with id n + 1 at the end of the n it found
Appended(x, after) ==
    /\ x.resp.kind = "created"
    /\ x.resp.status = 201
    /\ x.resp.product.id = Len(Held(x.before)) + 1
    /\ after = Held(x.before) \o <<x.resp.product>>

\* the exchange x ended with {error: text}, status 400, and left the file alone
Rejected400(x, after) ==
    /\ x.resp.kind = "error"
    /\ x.resp.status = 400
    /\ after = x.before

Last == Exchange(req, resp, before)

(***************************************************************************)
(* C1: a valid POST (the four fields with a numeric price, authorized      *)
(* where the variant requires it) on a store of n products returns 201,    *)
(* and the GET that follows returns the n previous products followed by    *)
(* the created record, whose id is n + 1.                                  *)
(***************************************************************************)
Valid(r, types) ==
    HasAllRequired(r) /\ r.body.price.t \in types /\ AuthorizedIfRequired(variant, r)

PostThenGet(types) ==
    /\ (IsPost(req) /\ Valid(req, types)) => Appended(Last, Held(doc))
    /\ (IsGet(req) /\ IsPost(prev.req) /\ Valid(prev.req, types)) =>
           /\ Appended(prev, Held(before))
           /\ resp.kind = "list" /\ resp.status = 200
           /\ resp.val.t = "list"
           /\ resp.val.items = Held(prev.before) \o <<prev.resp.product>>
           /\ Len(resp.val.items) = Len(Held(prev.before)) + 1

\* C1 as claimed: every numeric price
C1_PostThenGet_AnyNumber == PostThenGet(NumericTypes)

\* C1 amended: a numeric price that float() converts (an integer beyond the
\* range of a double is answered 400 by server.py and raises in app.py)
C1_PostThenGet == PostThenGet(ConvertibleTypes)

\* a GET has just followed a valid POST, in each variant
C1_Witness ==
    /\ IsGet(req) /\ IsPost(prev.req) /\ Valid(prev.req, ConvertibleTypes)
    /\ Len(resp.val.items) = Len(SeedProducts(variant)) + 1

(***************************************************************************)
(* C2: a POST whose JSON object lacks one of name, description, category,  *)
(* price returns 400 with an error body and leaves the file as it was.     *)
(***************************************************************************)
LacksRequired(r) == r.body.kind = "object" /\ ~(Required \subseteq r.body.keys)

\* C2 as claimed: every such POST, whatever its Authorization header
C2_MissingFields_AnyHeader ==
    (IsPost(req) /\ LacksRequired(req)) => Rejected400(Last, doc)

\* C2 amended: every such POST that is authorized where the variant requires it
C2_MissingFields ==
    (IsPost(req) /\ LacksRequired(req) /\ AuthorizedIfRequired(variant, req)) =>
        Rejected400(Last, doc)

C2_Witness ==
    /\ IsPost(req) /\ LacksRequired(req) /\ PresentsToken(req)
    /\ variant = "server" /\ "price" \notin req.body.keys /\ "name" \in req.body.keys
    /\ Len(Held(doc)) > Len(SeedProducts(variant))

(***************************************************************************)
(* C3: a POST with the four fields whose price is not numeric returns 400  *)
(* and leaves the file as it was, in both variants.                        *)
(***************************************************************************)
BadPrice(r) == HasAllRequired(r) /\ NonNumericPrice(r.body.price)

C4_Unauthorized ==
    (variant = "server" /\ IsPost(req) /\ ~PresentsToken(req)) =>
        /\ resp.kind = "error" /\ resp.status = 401
        /\ doc = before

(***************************************************************************)
(* C5: from an absent, empty or seed file, after any sequence of requests  *)
(* handled one at a time, the product at position k has id k (so the ids   *)
(* are pairwise distinct), each created product having received the number *)
(* of products loaded plus one.                                            *)
(***************************************************************************)
C5_SequentialIds ==
    /\ \A k \in 1..Len(Held(doc)) : Held(doc)[k].id = k
    /\ \A j, k \in 1..Len(Held(doc)) : Held(doc)[j].id = Held(doc)[k].id => j = k
    /\ resp.kind = "created" => resp.product.id = Len(Held(before)) + 1

C5_Witness ==
    /\ created = MaxCreated
    /\ Len(Held(doc)) = Len(SeedProducts(variant)) + MaxCreated
    /\ resp.kind = "created"

(***************************************************************************)
(* C6: load_products returns the empty sequence and never raises when the  *)
(* file is absent, empty, or holds content that does not parse; GET then   *)
(* answers 200 with an empty array.                                        *)
(***************************************************************************)
C6_LoadNeverFails ==
    (IsGet(req) /\ before.kind \in {"absent", "empty", "malformed", "badutf8"}) =>
        /\ resp.kind = "list" /\ resp.status = 200
        /\ resp.val = Loaded("list", <<>>)

(***************************************************************************)
(* C7: in server.py every created product's name, description, category    *)
(* and image is the escaped input cut to its limit: a prefix of the        *)
(* escaped text, no longer than the limit (100, 500, 50, 200), and free of *)
(* raw '<' and '>', also when the cut falls inside an entity.              *)
(***************************************************************************)
NoRawAngle(s) == \A i \in 1..Len(s) : s[i] \notin {"<", ">"}

IsEscapedCut(out, raw, limit) ==
    /\ out.t = "str"
    /\ Len(out.s) <= limit
    /\ Len(out.s) = Min(limit, Len(Escape(PyStr(raw))))
    /\ out.s = SubSeq(Escape(PyStr(raw)), 1, Len(out.s))
    /\ NoRawAngle(out.s)

\* C7: each text field of a product created by server.py is the escaped
\* input cut to its limit, within the limit and without a raw '<' or '>'
C7_Sanitized ==
    (variant = "server" /\ IsPost(req) /\ resp.kind = "created") =>
        /\ IsEscapedCut(resp.product.name, req.body.name, NAME_MAX)
        /\ IsEscapedCut(resp.product.description, req.body.description, DESCRIPTION_MAX)
        /\ IsEscapedCut(resp.product.category, req.body.category, CATEGORY_MAX)
        /\ IsEscapedCut(resp.product.image, ImageOrEmpty(req.body), IMAGE_MAX)
        /\ Held(doc)[Len(Held(doc))] = resp.product

\* a name of 98 letters and "<>" was stored: its escaped form is cut after "&l"
C7_Witness ==
    /\ variant = "server" /\ IsPost(req) /\ resp.kind = "created"
    /\ req.body.name = LongText(NAME_MAX)
    /\ Len(resp.product.name.s) = NAME_MAX
    /\ resp.product.name.s[NAME_MAX] = "l"
    /\ resp.product.name.s[NAME_MAX - 1] = "&"

(***************************************************************************)
(* C8: every POST that does not create a product ends with status 400 or   *)
(* 401 and a body {error: text}, and leaves the file as it was, whatever   *)
(* the request body is.                                                    *)
(***************************************************************************)
C8_StructuredErrors ==
    (IsPost(req) /\ resp.kind # "created") =>
        /\ resp.kind = "error"
        /\ resp.status \in {400, 401}
        /\ doc = before

(***************************************************************************)
(* C9: every product created through POST has a finite, non-negative       *)
(* price.                                                                  *)
(***************************************************************************)
C9_FinitePrices ==
    \A k \in (Len(Held(doc)) - created + 1)..Len(Held(doc)) :
        Held(doc)[k].price.k = "fin" /\ Held(doc)[k].price.n >= 0

(***************************************************************************)
(* C10: when two valid POSTs both load the n products before either        *)
(* saves, both answer 201 with the same id n + 1 and the file ends with    *)
(* n + 1 products, the last being that of the request that saved last; the *)
(* other created product is lost.                                          *)
(***************************************************************************)
BothLoadedFirst ==
    /\ \A i \in Handlers : h[i].pc = "done" /\ h[i].resp.kind = "created" /\ h[i].seen = 0
    /\ Len(saves) = 2

\* C10: both loads before either save: the same id n + 1 twice, and n + 1
\* products in the end, the last one that of the second save (in SpecConc
\* before stays the file the handlers started from)
C10_LostUpdate ==
    BothLoadedFirst =>
        /\ \A i \in Handlers :
              /\ h[i].resp.status = 201
              /\ h[i].resp.product.id = Len(Held(before)) + 1
        /\ Len(Held(doc)) = Len(Held(before)) + 1
        /\ Held(doc) = Held(before) \o <<h[saves[2]].resp.product>>

\* two different products were created and only the second one saved remains
C10_Witness ==
    /\ BothLoadedFirst
    /\ h[1].resp.product # h[2].resp.product
    /\ \A k \in 1..Len(Held(doc)) : Held(doc)[k] # h[saves[1]].resp.product

=============================================================================
